---- MODULE Spec2Model ----
(***************************************************************************)
(* A model of the JSON tokenizer (src/src/tokenizer.rs) and the recursive  *)
(* descent parser (src/src/parser.rs).                                     *)
(*                                                                         *)
(* A character is a one-character string; a text is a sequence of          *)
(* characters.  The tokenizer is modelled one Indexer::next call per step, *)
(* the parser one loop iteration per step, with the Rust call stack kept   *)
(* as an explicit sequence of frames.                                      *)
(***************************************************************************)
EXTENDS Integers, Sequences, FiniteSets, TLC

VARIABLES
    input,      \* the text handed to parse
    doc,        \* the Value the text was rendered from, or NoDoc
    pc,         \* the position in the code
    chars,      \* the Indexer: characters consumed, row, column
    buf,        \* the String being accumulated (s / num in tokenize)
    lit,        \* chars_match: the expected token and the characters matched
    tokens,     \* the Vec<Token> built by tokenize
    tokenized,  \* what tokenize returned to parse, once it has
    tpos,       \* the number of tokens the parser has consumed
    stack,      \* the parse_array / parse_object calls in progress
    result      \* what parse returned, once it has

vars == <<input, doc, pc, chars, buf, lit, tokens, tokenized, tpos, stack, result>>

-----------------------------------------------------------------------------
(* Bounds *)

\* the longest free text (any characters of Alphabet)
MaxLen == 3
\* the longest token sequence rendered to a text
MaxTokens == 4
\* the largest number of nodes of a rendered document
MaxNodes == 3
\* the largest number of members of a rendered object of leaves
MaxMembers == 3

-----------------------------------------------------------------------------
(* Characters *)

NL == "\n"
QUOTE == "\""
SPACE == " "
BACKSLASH == "\\"
\* Option<char>::None
NoChar == ""

Digits == {"0", "1", "2", "3", "4", "5", "6", "7", "8", "9"}
NUM_CHARS == {".", "e", "E", "+", "-"}

\* c.is_digit(10)
IsDigit(c) == c \in Digits

\* the characters free texts are made of
Alphabet == {"]", QUOTE, BACKSLASH, "a", "t", "r", "u", "e", "n", "l", "1",
             "-", ".", SPACE, NL}

-----------------------------------------------------------------------------
(* Tokens *)

LeftBrace == [t |-> "LeftBrace"]
RightBrace == [t |-> "RightBrace"]
LeftBracket == [t |-> "LeftBracket"]
RightBracket == [t |-> "RightBracket"]
Comma == [t |-> "Comma"]
Colon == [t |-> "Colon"]
TokString(s) == [t |-> "String", s |-> s]
TokNumber(n) == [t |-> "Number", n |-> n]
TokTrue == [t |-> "True"]
TokFalse == [t |-> "False"]
TokNull == [t |-> "Null"]
\* Option<Token>::None
NoToken == [t |-> "None"]

\* impl Display for Token, for the tokens the program renders (chars_match
\* renders True, False and Null; no Number is ever rendered)
TokenToString(tok) ==
    CASE tok.t = "LeftBrace" -> <<"{">>
      [] tok.t = "RightBrace" -> <<"}">>
      [] tok.t = "LeftBracket" -> <<"[">>
      [] tok.t = "RightBracket" -> <<"]">>
      [] tok.t = "Comma" -> <<",">>
      [] tok.t = "Colon" -> <<":">>
      [] tok.t = "String" -> tok.s
      [] tok.t = "True" -> <<"t", "r", "u", "e">>
      [] tok.t = "False" -> <<"f", "a", "l", "s", "e">>
      [] tok.t = "Null" -> <<"n", "u", "l", "l">>

-----------------------------------------------------------------------------
(* str::parse::<f64> *)

RECURSIVE DigitRun(_, _)
\* the length of the longest run of digits of s that starts at index i
DigitRun(s, i) ==
    IF i <= Len(s) /\ IsDigit(s[i]) THEN 1 + DigitRun(s, i + 1) ELSE 0

DigitVal(c) == CHOOSE v \in 0..9 : ToString(v) = c

RECURSIVE TextToNat(_)
TextToNat(ds) ==
    IF ds = <<>> THEN 0
    ELSE 10 * TextToNat(SubSeq(ds, 1, Len(ds) - 1)) + DigitVal(ds[Len(ds)])

RECURSIVE Normalize(_, _)
\* m * 10^e with the trailing zeros of m moved into e; zero is <<0, 0>>
Normalize(m, e) ==
    IF m = 0 THEN [m |-> 0, e |-> 0]
    ELSE IF m % 10 = 0 THEN Normalize(m \div 10, e + 1)
    ELSE [m |-> m, e |-> e]

\* <f64 as FromStr>::from_str on a text made of digits, '.', 'e', 'E', '+',
\* '-':  Sign? (Digit+ | Digit+ '.' Digit* | Digit* '.' Digit+) Exp?  with
\* Exp ::= [eE] Sign? Digit+.  The value is the decimal m * 10^e, which
\* stands for the double nearest to it: the literals of the texts below are
\* too short for two of them to round to one double, or to overflow.
ParseF64(s) ==
    LET hasSign == Len(s) >= 1 /\ s[1] \in {"+", "-"}
        neg == hasSign /\ s[1] = "-"
        i0 == IF hasSign THEN 2 ELSE 1
        nInt == DigitRun(s, i0)
        i1 == i0 + nInt
        hasDot == i1 <= Len(s) /\ s[i1] = "."
        i2 == IF hasDot THEN i1 + 1 ELSE i1
        nFrac == IF hasDot THEN DigitRun(s, i2) ELSE 0
        i3 == i2 + nFrac
        hasExp == i3 <= Len(s) /\ s[i3] \in {"e", "E"}
        i4 == IF hasExp THEN i3 + 1 ELSE i3
        hasESign == hasExp /\ i4 <= Len(s) /\ s[i4] \in {"+", "-"}
        eNeg == hasESign /\ s[i4] = "-"
        i5 == IF hasESign THEN i4 + 1 ELSE i4
        nExp == IF hasExp THEN DigitRun(s, i5) ELSE 0
        i6 == i5 + nExp
        ok == /\ nInt + nFrac > 0
              /\ hasExp => nExp > 0
              /\ i6 = Len(s) + 1
        mant == TextToNat(SubSeq(s, i0, i1 - 1) \o SubSeq(s, i2, i3 - 1))
        ex == TextToNat(SubSeq(s, i5, i6 - 1))
    IN  IF ok
        THEN [ok |-> TRUE,
              val |-> Normalize(IF neg THEN -mant ELSE mant,
                                (IF eNeg THEN -ex ELSE ex) - nFrac)]
        ELSE [ok |-> FALSE, val |-> [m |-> 0, e |-> 0]]

-----------------------------------------------------------------------------
(* Results *)

Running == [kind |-> "Running"]
Ok(v) == [kind |-> "Ok", value |-> v]
Err(e) == [kind |-> "Err", err |-> e]
\* a panic unwinds out of parse: no Result is returned
Panic(what) == [kind |-> "Panic", what |-> what]

UnexpectedCharacter(position, expected, got) ==
    [e |-> "UnexpectedCharacter", position |-> position,
     expected_token |-> expected, got |-> got]
\* the parser gives UnexpectedToken an Option<Token> (parser.rs:32, 44, 87)
UnexpectedToken(tok) == [e |-> "UnexpectedToken", token |-> tok]
NoTokens == [e |-> "NoTokens"]

-----------------------------------------------------------------------------
(* Indexer *)

NewIndexer == [idx |-> 0, row |-> 0, column |-> 0]

\* Peekable::peek: the next character, not consumed
Peek(ix) == IF ix.idx < Len(input) THEN input[ix.idx + 1] ELSE NoChar

\* Indexer::next that keeps the column at a newline
IndexerNextNoReset(ix) ==
    LET next == Peek(ix)
    IN  IF next = NL
        THEN [idx |-> ix.idx + 1, row |-> ix.row + 1, column |-> ix.column]
        ELSE IF next /= NoChar
             THEN [idx |-> ix.idx + 1, row |-> ix.row, column |-> ix.column + 1]
        ELSE ix

\* Indexer::next: the Indexer after the call (the character returned is Peek)
IndexerNext(ix) ==
    LET next == Peek(ix)
    IN  IF next = NL THEN [idx |-> ix.idx + 1, row |-> ix.row + 1, column |-> 0]
        ELSE IF next /= NoChar
             THEN [idx |-> ix.idx + 1, row |-> ix.row, column |-> ix.column + 1]
        ELSE ix

\* Indexer::position with column and row exchanged
PositionSwapped(ix) == <<ix.column, ix.row>>

\* Indexer::position
Position(ix) == <<ix.row, ix.column>>

-----------------------------------------------------------------------------
(* Values *)

VNull == [t |-> "Null"]
VBoolean(b) == [t |-> "Boolean", b |-> b]
VNumber(n) == [t |-> "Number", n |-> n]
VString(s) == [t |-> "String", s |-> s]
VArray(array) == [t |-> "Array", array |-> array]
\* an Object holds a HashMap<String, Value>: a function from its keys
VObject(object) == [t |-> "Object", object |-> object]

EmptyMap == <<>>

\* an insert that keeps the entry a key already has
MapInsertIfAbsent(object, key, value) ==
    [k \in DOMAIN object \cup {key} |->
        IF k \in DOMAIN object THEN object[k] ELSE value]

\* HashMap::insert: the entry of key is replaced, or added
MapInsert(object, key, value) ==
    [k \in DOMAIN object \cup {key} |-> IF k = key THEN value ELSE object[k]]

-----------------------------------------------------------------------------
(* tokenize *)

\* tokenize returns: its Result goes to parse
TokenizeReturns(r) ==
    /\ tokenized' = r
    /\ pc' = "parse"

\* a panic inside tokenize unwinds through parse
TokenizePanics(what) ==
    /\ result' = Panic(what)
    /\ pc' = "done"
    /\ UNCHANGED tokenized

\* the token a structural character stands for
Structural(c) ==
    CASE c = "{" -> LeftBrace
      [] c = "}" -> RightBrace
      [] c = "[" -> LeftBracket
      [] c = "]" -> RightBracket
      [] c = "," -> Comma
      [] c = ":" -> Colon

\* the literal a lead character announces
Literal(c) ==
    CASE c = "t" -> TokTrue
      [] c = "f" -> TokFalse
      [] c = "n" -> TokNull

\* one iteration of `while let Some(c) = chars.next()` of tokenize, up to the
\* first character of a string, a literal or a number
Dispatch ==
    /\ pc = "dispatch"
    /\ LET c == Peek(chars)
           ix == IndexerNext(chars)
       IN  /\ chars' = ix
           /\ UNCHANGED <<input, doc, tpos, stack>>
           /\ IF c = NoChar
              THEN /\ TokenizeReturns(Ok(tokens))
                   /\ UNCHANGED <<buf, lit, tokens, result>>
              ELSE IF c \in {"{", "}", "[", "]", ",", ":"}
              THEN /\ tokens' = Append(tokens, Structural(c))
                   /\ UNCHANGED <<pc, buf, lit, tokenized, result>>
              ELSE IF c = QUOTE
              THEN /\ buf' = <<>>
                   /\ pc' = "string"
                   /\ UNCHANGED <<lit, tokens, tokenized, result>>
              ELSE IF c \in {"t", "f", "n"}
              THEN /\ lit' = [expected_token |-> Literal(c), matched |-> 1]
                   /\ pc' = "chars_match"
                   /\ UNCHANGED <<buf, tokens, tokenized, result>>
              ELSE IF IsDigit(c) \/ c = "-"
              THEN /\ buf' = <<c>>
                   /\ pc' = "number"
                   /\ UNCHANGED <<lit, tokens, tokenized, result>>
              ELSE IF c \in {SPACE, NL}
              THEN UNCHANGED <<pc, buf, lit, tokens, tokenized, result>>
              ELSE /\ TokenizeReturns(
                          Err(UnexpectedCharacter(Position(ix), NoToken, c)))
                   /\ UNCHANGED <<buf, lit, tokens, result>>

\* one iteration of the string loop: `while let Some(c) = chars.next()`
StringStep ==
    /\ pc = "string"
    /\ LET c == Peek(chars)
       IN  /\ chars' = IndexerNext(chars)
           /\ IF c = NoChar \/ c = QUOTE
              THEN /\ tokens' = Append(tokens, TokString(buf))
                   /\ pc' = "dispatch"
                   /\ UNCHANGED buf
              ELSE /\ buf' = Append(buf, c)
                   /\ UNCHANGED <<tokens, pc>>
    /\ UNCHANGED <<input, doc, lit, tokenized, tpos, stack, result>>

\* num.parse().unwrap(): the number, or a panic
UnwrapNumber(num) ==
    IF ParseF64(num).ok
    THEN /\ tokens' = Append(tokens, TokNumber(ParseF64(num).val))
         /\ pc' = "dispatch"
         /\ UNCHANGED <<tokenized, result>>
    ELSE /\ TokenizePanics("num.parse().unwrap()")
         /\ UNCHANGED tokens

\* one iteration of the number loop: `while let Some(&c) = chars.chars.peek()`,
\* and what follows the loop when it ends
NumberStep ==
    /\ pc = "number"
    /\ LET c == Peek(chars)
       IN  IF c /= NoChar /\ (IsDigit(c) \/ c \in NUM_CHARS)
           THEN /\ buf' = Append(buf, c)
                /\ chars' = IndexerNext(chars)
                /\ UNCHANGED <<pc, tokens, tokenized, result>>
           ELSE /\ UnwrapNumber(buf)
                /\ UNCHANGED <<buf, chars>>
    /\ UNCHANGED <<input, doc, lit, tpos, stack>>

\* one iteration of the loop of chars_match; after the last character of the
\* literal has matched, chars_match returns and tokenize pushes the token
CharsMatchStep ==
    /\ pc = "chars_match"
    /\ LET text == TokenToString(lit.expected_token)
           got == Peek(chars)
           ix == IndexerNext(chars)
       IN  /\ chars' = ix
           /\ IF got /= text[lit.matched + 1]
              THEN /\ TokenizeReturns(
                          Err(UnexpectedCharacter(
                              <<ix.row, ix.column>>, lit.expected_token, got)))
                   /\ UNCHANGED <<lit, tokens>>
              ELSE IF lit.matched + 1 = Len(text)
              THEN /\ tokens' = Append(tokens, lit.expected_token)
                   /\ pc' = "dispatch"
                   /\ UNCHANGED <<lit, tokenized>>
              ELSE /\ lit' = [lit EXCEPT !.matched = @ + 1]
                   /\ UNCHANGED <<pc, tokens, tokenized>>
    /\ UNCHANGED <<input, doc, buf, tpos, stack, result>>

-----------------------------------------------------------------------------
(* parse *)

\* the Vec<Token> the parser iterates over
Stream == IF tokenized.kind = "Ok" THEN tokenized.value ELSE <<>>

\* Peekable<I>::peek: the next token, not consumed
PeekToken == IF tpos < Len(Stream) THEN Stream[tpos + 1] ELSE NoToken

\* Ok(v) reaches the caller whose calls in progress are callers: parse
\* itself, `array.push(parse_value(tokens)?)` of parse_array, or
\* `object.insert(key, value)` of parse_object
Deliver(callers, v) ==
    IF callers = <<>>
    THEN /\ result' = Ok(v)
         /\ pc' = "done"
         /\ stack' = callers
    ELSE LET top == callers[Len(callers)]
         IN  /\ UNCHANGED result
             /\ IF top.fn = "parse_array"
                THEN /\ stack' = [callers EXCEPT
                                      ![Len(callers)].array = Append(@, v)]
                     /\ pc' = "parse_array"
                ELSE /\ stack' = [callers EXCEPT
                                      ![Len(callers)].object =
                                          MapInsert(@, top.key, v)]
                     /\ pc' = "parse_object"

\* parse_value returns Ok(v) for a token that is a value by itself
Return(v) == Deliver(stack, v)

\* the parse_array or parse_object in progress returns Ok(v)
ReturnFrom(v) == Deliver(SubSeq(stack, 1, Len(stack) - 1), v)

\* an Err(e) goes up through every `?` to the caller of parse
Fail(e) ==
    /\ result' = Err(e)
    /\ pc' = "done"
    /\ UNCHANGED stack

\* a parse that goes on with the tokens of a failed tokenize
TryIgnoring(r) ==
    /\ pc' = "parse_value"
    /\ UNCHANGED result

\* `tokenize(input)?` in parse
Try(r) ==
    IF r.kind = "Err"
    THEN /\ result' = r
         /\ pc' = "done"
    ELSE /\ pc' = "parse_value"
         /\ UNCHANGED result

\* parse: tokenize has returned
Parse ==
    /\ pc = "parse"
    /\ Try(tokenized)
    /\ UNCHANGED <<input, doc, chars, buf, lit, tokens, tokenized, tpos, stack>>

\* a mapping of tokens to values that drops the token from the error
LeafValueNoToken(token) ==
    CASE token.t = "String" -> Ok(VString(token.s))
      [] token.t = "Number" -> Ok(VNumber(token.n))
      [] token.t = "True" -> Ok(VBoolean(TRUE))
      [] token.t = "False" -> Ok(VBoolean(FALSE))
      [] token.t = "Null" -> Ok(VNull)
      [] OTHER -> Err(UnexpectedToken(NoToken))

\* the value of a token that is neither LeftBrace nor LeftBracket
LeafValue(token) ==
    CASE token.t = "String" -> Ok(VString(token.s))
      [] token.t = "Number" -> Ok(VNumber(token.n))
      [] token.t = "True" -> Ok(VBoolean(TRUE))
      [] token.t = "False" -> Ok(VBoolean(FALSE))
      [] token.t = "Null" -> Ok(VNull)
      [] OTHER -> Err(UnexpectedToken(token))

\* a peek whose failure is UnexpectedToken(None)
PeekOrUnexpected ==
    IF PeekToken = NoToken THEN Err(UnexpectedToken(NoToken)) ELSE Ok(PeekToken)

\* tokens.peek().ok_or(JsonError::NoTokens)
PeekOrNoTokens == IF PeekToken = NoToken THEN Err(NoTokens) ELSE Ok(PeekToken)

\* parse_value
ParseValue ==
    /\ pc = "parse_value"
    /\ LET token == PeekOrNoTokens
       IN  IF token.kind = "Err"
           THEN Fail(token.err) /\ UNCHANGED tpos
           ELSE IF token.value = LeftBrace
           THEN pc' = "enter_object" /\ UNCHANGED <<tpos, stack, result>>
           ELSE IF token.value = LeftBracket
           THEN pc' = "enter_array" /\ UNCHANGED <<tpos, stack, result>>
           ELSE /\ tpos' = tpos + 1
                /\ IF LeafValue(token.value).kind = "Ok"
                   THEN Return(LeafValue(token.value).value)
                   ELSE Fail(LeafValue(token.value).err)
    /\ UNCHANGED <<input, doc, chars, buf, lit, tokens, tokenized>>

\* parse_array, up to its loop
EnterArray ==
    /\ pc = "enter_array"
    /\ LET token == PeekToken
       IN  /\ tpos' = IF token = NoToken THEN tpos ELSE tpos + 1
           /\ IF token /= LeftBracket
              THEN Fail(UnexpectedToken(token))
              ELSE /\ stack' = Append(stack, [fn |-> "parse_array", array |-> <<>>])
                   /\ pc' = "parse_array"
                   /\ UNCHANGED result
    /\ UNCHANGED <<input, doc, chars, buf, lit, tokens, tokenized>>

\* one iteration of `while let Some(token) = tokens.peek()` of parse_array,
\* and its `Ok(Value::Array(array))` when the loop ends
ArrayStep ==
    /\ pc = "parse_array"
    /\ LET token == PeekToken
           array == stack[Len(stack)].array
       IN  IF token = NoToken
           THEN ReturnFrom(VArray(array)) /\ UNCHANGED tpos
           ELSE IF token = RightBracket
           THEN tpos' = tpos + 1 /\ ReturnFrom(VArray(array))
           ELSE IF token = Comma
           THEN tpos' = tpos + 1 /\ UNCHANGED <<pc, stack, result>>
           ELSE IF token \in {LeftBrace, RightBrace, LeftBracket, Colon}
           THEN Fail(UnexpectedToken(token)) /\ UNCHANGED tpos
           ELSE pc' = "parse_value" /\ UNCHANGED <<tpos, stack, result>>
    /\ UNCHANGED <<input, doc, chars, buf, lit, tokens, tokenized>>

\* parse_object, up to its loop
EnterObject ==
    /\ pc = "enter_object"
    /\ LET token == PeekToken
       IN  /\ tpos' = IF token = NoToken THEN tpos ELSE tpos + 1
           /\ IF token /= LeftBrace
              THEN Fail(UnexpectedToken(token))
              ELSE /\ stack' = Append(stack, [fn |-> "parse_object",
                                              object |-> EmptyMap, key |-> <<>>])
                   /\ pc' = "parse_object"
                   /\ UNCHANGED result
    /\ UNCHANGED <<input, doc, chars, buf, lit, tokens, tokenized>>

\* one iteration of `while let Some(token) = tokens.next()` of parse_object up
\* to the call of parse_value, and its `Ok(Value::Object(object))` when the
\* loop ends
ObjectStep ==
    /\ pc = "parse_object"
    /\ LET token == PeekToken
           object == stack[Len(stack)].object
           colon == IF tpos + 1 < Len(Stream) THEN Stream[tpos + 2] ELSE NoToken
       IN  IF token = NoToken
           THEN ReturnFrom(VObject(object)) /\ UNCHANGED tpos
           ELSE IF token = RightBrace
           THEN tpos' = tpos + 1 /\ ReturnFrom(VObject(object))
           ELSE IF token = Comma
           THEN tpos' = tpos + 1 /\ UNCHANGED <<pc, stack, result>>
           ELSE IF token.t /= "String"
           THEN tpos' = tpos + 1 /\ Fail(UnexpectedToken(token))
           ELSE IF colon = NoToken
           THEN /\ tpos' = tpos + 1
                /\ result' = Panic("tokens.next().unwrap()")
                /\ pc' = "done"
                /\ UNCHANGED stack
           ELSE IF colon /= Colon
           THEN tpos' = tpos + 2 /\ Fail(UnexpectedToken(colon))
           ELSE /\ tpos' = tpos + 2
                /\ stack' = [stack EXCEPT ![Len(stack)].key = token.s]
                /\ pc' = "parse_value"
                /\ UNCHANGED result
    /\ UNCHANGED <<input, doc, chars, buf, lit, tokens, tokenized>>

-----------------------------------------------------------------------------
(* The texts parse is given *)

RECURSIVE Texts(_)
\* the texts of exactly n characters of Alphabet
Texts(n) ==
    IF n = 0 THEN {<<>>}
    ELSE {Append(s, c) : s \in Texts(n - 1), c \in Alphabet}

FreeTexts == UNION {Texts(n) : n \in 0..MaxLen}

\* the lexemes token sequences are rendered from
Lexemes == {<<"{">>, <<"}">>, <<"[">>, <<"]">>, <<",">>, <<":">>,
            <<QUOTE, "a", QUOTE>>}

RECURSIVE LexemeTexts(_)
\* the texts made of exactly n lexemes
LexemeTexts(n) ==
    IF n = 0 THEN {<<>>}
    ELSE {s \o l : s \in LexemeTexts(n - 1), l \in Lexemes}

TokenTexts == UNION {LexemeTexts(n) : n \in 0..MaxTokens}

\* A document is a JSON text as a tree: a leaf with its text and its value,
\* an array of documents, or an object of <<key, document>> members.
Leaves == {[k |-> "leaf", text |-> <<"1">>,
            value |-> VNumber([m |-> 1, e |-> 0])],
           [k |-> "leaf", text |-> <<QUOTE, "a", QUOTE>>,
            value |-> VString(<<"a">>)],
           [k |-> "leaf", text |-> <<"f", "a", "l", "s", "e">>,
            value |-> VBoolean(FALSE)]}
Keys == {<<"a">>, <<"b">>}

RECURSIVE Docs(_), DocSeqs(_), MemberSeqs(_)
\* the documents of exactly n nodes
Docs(n) ==
    IF n = 1
    THEN Leaves \cup {[k |-> "array", items |-> <<>>],
                      [k |-> "object", members |-> <<>>]}
    ELSE {[k |-> "array", items |-> items] : items \in DocSeqs(n - 1)}
         \cup {[k |-> "object", members |-> ms] : ms \in MemberSeqs(n - 1)}
\* the sequences of documents of n nodes in all
DocSeqs(n) ==
    IF n = 0 THEN {<<>>}
    ELSE UNION {{<<d>> \o rest : d \in Docs(j), rest \in DocSeqs(n - j)} :
                j \in 1..n}
\* the sequences of members whose documents have n nodes in all
MemberSeqs(n) ==
    IF n = 0 THEN {<<>>}
    ELSE UNION {{<<<<key, d>>>> \o rest :
                    key \in Keys, d \in Docs(j), rest \in MemberSeqs(n - j)} :
                j \in 1..n}

RECURSIVE LeafMemberSeqs(_)
\* the sequences of exactly n members whose documents are leaves
LeafMemberSeqs(n) ==
    IF n = 0 THEN {<<>>}
    ELSE {Append(ms, <<key, d>>) :
             ms \in LeafMemberSeqs(n - 1), key \in Keys, d \in Leaves}

\* the objects of at most MaxMembers members, all of them leaves
FlatObjects ==
    {[k |-> "object", members |-> ms] :
        ms \in UNION {LeafMemberSeqs(n) : n \in 0..MaxMembers}}

Documents == FlatObjects \cup UNION {Docs(n) : n \in 1..MaxNodes}

RECURSIVE Render(_), RenderItems(_), RenderMembers(_)
\* the JSON text of a document, without whitespace
Render(d) ==
    CASE d.k = "leaf" -> d.text
      [] d.k = "array" -> <<"[">> \o RenderItems(d.items) \o <<"]">>
      [] d.k = "object" -> <<"{">> \o RenderMembers(d.members) \o <<"}">>
RenderItems(items) ==
    IF items = <<>> THEN <<>>
    ELSE IF Len(items) = 1 THEN Render(items[1])
    ELSE Render(items[1]) \o <<",">> \o RenderItems(Tail(items))
RenderMembers(ms) ==
    IF ms = <<>> THEN <<>>
    ELSE LET m == <<QUOTE>> \o ms[1][1] \o <<QUOTE, ":">> \o Render(ms[1][2])
         IN  IF Len(ms) = 1 THEN m
             ELSE m \o <<",">> \o RenderMembers(Tail(ms))

\* no document: the text is a free text or a token text
NoDoc == [k |-> "none"]

-----------------------------------------------------------------------------
(* The specification *)

Init ==
    /\ \/ doc = NoDoc /\ input \in FreeTexts \cup TokenTexts
       \/ doc \in Documents /\ input = Render(doc)
    /\ pc = "dispatch"
    /\ chars = NewIndexer
    /\ buf = <<>>
    /\ lit = [expected_token |-> NoToken, matched |-> 0]
    /\ tokens = <<>>
    /\ tokenized = Running
    /\ tpos = 0
    /\ stack = <<>>
    /\ result = Running

Next ==
    \/ Dispatch
    \/ StringStep
    \/ NumberStep
    \/ CharsMatchStep
    \/ Parse
    \/ ParseValue
    \/ EnterArray
    \/ ArrayStep
    \/ EnterObject
    \/ ObjectStep

Spec == Init /\ [][Next]_vars

-----------------------------------------------------------------------------
(* What the claims speak of *)

Done == pc = "done"

RECURSIVE ValueOf(_)
\* the Value a document denotes: an array keeps its items in order, an object
\* maps each of its keys to the value of the last member with that key
ValueOf(d) ==
    CASE d.k = "leaf" -> d.value
      [] d.k = "array" ->
            VArray([i \in 1..Len(d.items) |-> ValueOf(d.items[i])])
      [] d.k = "object" ->
            VObject([key \in {d.members[i][1] : i \in 1..Len(d.members)} |->
                LET last == CHOOSE i \in 1..Len(d.members) :
                                /\ d.members[i][1] = key
                                /\ \A j \in (i + 1)..Len(d.members) :
                                       d.members[j][1] /= key
                IN  ValueOf(d.members[last][2])])

\* the number of newline characters among the first n characters of the input
Newlines(n) == Cardinality({i \in 1..n : input[i] = NL})

\* the number of characters after the last newline among the first n
\* characters of the input (n itself when there is no newline among them)
SinceNewline(n) ==
    LET nls == {i \in 1..n : input[i] = NL}
    IN  IF nls = {} THEN n
        ELSE n - (CHOOSE i \in nls : \A j \in nls : j <= i)

\* the zero-based (row, column) of the character that follows the first n
\* characters of the input
PositionAfter(n) == <<Newlines(n), SinceNewline(n)>>

-----------------------------------------------------------------------------
(* C1 *)

\* C1: for every valid JSON text without escape sequences, parse returns Ok
\* with the Value the text denotes: arrays (also arrays of arrays and of
\* objects) with their elements in order, objects with their keys.
C1_ParseMirrorsDocument ==
    (Done /\ doc /= NoDoc) => result = Ok(ValueOf(doc))

-----------------------------------------------------------------------------
(* C2 *)

\* C2: parse ends by returning Ok(Value) or Err(JsonError), whatever the text:
\* it never panics.
C2_ParseReturnsResult ==
    Done => result.kind \in {"Ok", "Err"}

-----------------------------------------------------------------------------
(* C3 *)

\* C3: when the run of number characters tokenize has scanned is not a valid
\* float literal, tokenize returns Err(ParsingNumber{position, message}) with
\* the position of the scan.
C3_InvalidNumberIsParsingNumber ==
    [][(pc = "number" /\ pc' /= "number" /\ ~ParseF64(buf).ok)
          => /\ tokenized'.kind = "Err"
             /\ tokenized'.err.e = "ParsingNumber"
             /\ tokenized'.err.position = Position(chars)]_vars

-----------------------------------------------------------------------------
(* C4 *)

\* tokenize has failed with UnexpectedCharacter
FailedOnCharacter ==
    /\ tokenized.kind = "Err"
    /\ tokenized.err.e = "UnexpectedCharacter"

\* the number of characters of the input before the first unmatched one: the
\* character tokenize consumed last, or the end of the input
Unmatched == IF tokenized.err.got = NoChar THEN chars.idx ELSE chars.idx - 1

\* got is the first unmatched character, or None at the end of the input; a
\* failure without expected_token is at a character that begins no token, one
\* with expected_token is in the literal whose first character precedes the
\* matched ones
GotAndExpected ==
    LET err == tokenized.err
    IN  /\ IF err.got = NoChar THEN chars.idx = Len(input)
           ELSE err.got = input[chars.idx]
        /\ IF err.expected_token = NoToken
           THEN err.got \notin {"{", "}", "[", "]", ",", ":", QUOTE, "t", "f",
                                "n", "-", SPACE, NL, NoChar} \cup Digits
           ELSE /\ Unmatched >= lit.matched
                /\ input[Unmatched - lit.matched + 1] \in {"t", "f", "n"}
                /\ err.expected_token =
                       Literal(input[Unmatched - lit.matched + 1])
                /\ SubSeq(input, Unmatched - lit.matched + 1, Unmatched) =
                       SubSeq(TokenToString(err.expected_token), 1, lit.matched)
                /\ err.got /= TokenToString(err.expected_token)[lit.matched + 1]

\* C4 as stated: whenever tokenize fails with UnexpectedCharacter, position
\* is the zero-based (row, column) of the first unmatched character, got is
\* that character (None at the end of the input) and, in a literal,
\* expected_token is the literal.
C4_PositionOfUnmatched ==
    FailedOnCharacter =>
        /\ tokenized.err.position = PositionAfter(Unmatched)
        /\ GotAndExpected

\* C4 as the code has it: position is the zero-based (row, column) of the
\* cursor once the first unmatched character is consumed, that is of the
\* character after it (the end of the input when the input ended in the
\* literal); got and expected_token are as stated.
C4_PositionPastUnmatched ==
    FailedOnCharacter =>
        /\ tokenized.err.position = PositionAfter(chars.idx)
        /\ GotAndExpected

\* a literal on a later row broken by a character on that row
C4_Witness ==
    /\ FailedOnCharacter
    /\ tokenized.err.expected_token = TokTrue
    /\ tokenized.err.got = "a"
    /\ tokenized.err.position = <<1, 2>>

-----------------------------------------------------------------------------
(* C5 *)

\* the text is made of spaces and newlines only
Blank == \A i \in 1..Len(input) : input[i] \in {SPACE, NL}

\* C5: a text that tokenizes to no token (the empty text, and every text of
\* spaces and newlines) makes parse fail with NoTokens, and so does every
\* entry of parse_value on an exhausted token stream.
C5_NoTokens ==
    /\ [](Blank /\ pc \in {"parse", "parse_value"} => tokenized = Ok(<<>>))
    /\ [](Done /\ tokenized = Ok(<<>>) => result = Err(NoTokens))
    /\ [][(pc = "parse_value" /\ tpos >= Len(Stream))
             => result' = Err(NoTokens)]_vars

\* parse_value is entered on an exhausted stream after a key and its colon
C5_Witness ==
    /\ Done
    /\ result = Err(NoTokens)
    /\ stack /= <<>>
    /\ stack[Len(stack)].fn = "parse_object"
    /\ tpos = Len(Stream)
    /\ Stream[tpos] = Colon

-----------------------------------------------------------------------------
(* C6 *)

\* the tokens that are no value and open none
Closers == {RightBrace, RightBracket, Comma, Colon}

\* C6: parse_value fails with UnexpectedToken(Some(token)) when the next token
\* is RightBrace, RightBracket, Comma or Colon; so does parse on each of the
\* texts "}", "]", "," and ":".
C6_UnexpectedToken ==
    /\ [][(pc = "parse_value" /\ PeekToken \in Closers)
             => result' = Err(UnexpectedToken(PeekToken))]_vars
    /\ [](Done /\ Len(input) = 1 /\ input[1] \in {"}", "]", ",", ":"}
             => result = Err(UnexpectedToken(Structural(input[1]))))

\* a RightBrace where the value of a member is expected
C6_Witness ==
    /\ Done
    /\ result = Err(UnexpectedToken(RightBrace))
    /\ tpos >= 2
    /\ Stream[tpos] = RightBrace
    /\ Stream[tpos - 1] = Colon
    /\ stack /= <<>>
    /\ stack[Len(stack)].fn = "parse_object"

-----------------------------------------------------------------------------
(* C7 *)

\* C7: when tokenize returns Err(e), parse returns Err(e): never NoTokens or
\* UnexpectedToken, even when the tokens before the lexical error are no
\* valid JSON.
C7_LexicalErrorUnchanged ==
    (Done /\ tokenized.kind = "Err") => result = tokenized

\* a lexical error after a token that no value begins with
C7_Witness ==
    /\ Done
    /\ tokenized.kind = "Err"
    /\ result = tokenized
    /\ tokens /= <<>>
    /\ tokens[1] \in Closers

-----------------------------------------------------------------------------
(* C8 *)

\* the members of an object document whose key is key
Occurrences(d, key) == {i \in 1..Len(d.members) : d.members[i][1] = key}

\* C8: when parse_object succeeds on an object in which a key occurs more
\* than once, the Object maps the key to the value of its last occurrence,
\* holds one entry for each distinct key, and the other keys keep the values
\* of their own last occurrences.
C8_LastOccurrenceWins ==
    (Done /\ doc /= NoDoc /\ doc.k = "object" /\ result.kind = "Ok") =>
        /\ result.value.t = "Object"
        /\ DOMAIN result.value.object =
               {doc.members[i][1] : i \in 1..Len(doc.members)}
        /\ \A key \in DOMAIN result.value.object :
               \E i \in Occurrences(doc, key) :
                   /\ \A j \in Occurrences(doc, key) : j <= i
                   /\ result.value.object[key] = ValueOf(doc.members[i][2])

\* an object parsed whose first and third members share a key and differ in
\* value, with a member of another key between them
C8_Witness ==
    /\ Done
    /\ doc /= NoDoc
    /\ doc.k = "object"
    /\ result.kind = "Ok"
    /\ Len(doc.members) = 3
    /\ doc.members[1][1] = doc.members[3][1]
    /\ doc.members[1][2] /= doc.members[3][2]
    /\ doc.members[2][1] /= doc.members[1][1]
    /\ DOMAIN result.value.object = Keys

-----------------------------------------------------------------------------
(* C9 *)

\* the token that closes the container a call parses
ClosingToken(fn) == IF fn = "parse_array" THEN RightBracket ELSE RightBrace

\* C9: parse_array and parse_object return Ok only by consuming the matching
\* RightBracket / RightBrace: the last token a returning call consumed is its
\* closing token, and nothing else (the end of the token stream least of
\* all) closes the container.
C9_ClosedByMatchingToken ==
    [][Len(stack') < Len(stack)
          => /\ tpos' = tpos + 1
             /\ Stream[tpos'] = ClosingToken(stack[Len(stack)].fn)]_vars

-----------------------------------------------------------------------------
(* C10 *)

\* C10: in every state of tokenize, row is the number of newlines consumed
\* and column the number of characters consumed since the last of them (since
\* the start when there is none); the lookahead of the number scan leaves the
\* position as it is.
C10_PositionCountsConsumed ==
    /\ [](/\ chars.idx \in 0..Len(input)
          /\ Position(chars) = PositionAfter(chars.idx))
    /\ [][(pc = "number" /\ chars'.idx = chars.idx) => chars' = chars]_vars

\* a number scan on a later row ended by a lookahead that consumed nothing
C10_Witness ==
    /\ pc = "dispatch"
    /\ tokens /= <<>>
    /\ tokens[Len(tokens)].t = "Number"
    /\ chars.row = 1
    /\ chars.column = 1
    /\ chars.idx < Len(input)

-----------------------------------------------------------------------------
(* C11 *)

\* the character at index i of the input is preceded by a backslash
Escaped(i) == i > 1 /\ input[i - 1] = BACKSLASH

\* C11: a string literal runs from its opening quote to the next unescaped
\* quote (one not preceded by a backslash): the quote that ends the string
\* loop is unescaped, it is consumed, and the String emitted is the text
\* between the two quotes, the closing quote left out.
C11_StringEndsAtUnescapedQuote ==
    [][(pc = "string" /\ pc' = "dispatch" /\ Peek(chars) = QUOTE)
          => LET open == chars.idx - Len(buf)
                 close == chars.idx + 1
             IN  /\ open >= 1
                 /\ input[open] = QUOTE
                 /\ ~Escaped(close)
                 /\ \A i \in (open + 1)..(close - 1) :
                        input[i] = QUOTE => Escaped(i)
                 /\ chars'.idx = close
                 /\ tokens' = Append(tokens,
                        TokString(SubSeq(input, open + 1, close - 1)))]_vars

====
